---------------------------- MODULE Spec2Model ----------------------------
(***************************************************************************)
(* A model of shogun's first-order stochastic minimizer                    *)
(* (src/shogun/optimization/FirstOrderStochasticMinimizer.cpp).            *)
(*                                                                         *)
(* The fields of the minimizer are the variables m_*; x is the variable    *)
(* vector owned by the cost function.  Real numbers are exact rationals    *)
(* <<numerator, denominator>> in lowest terms with a positive denominator. *)
(* The setters, init_minimization, do_proximal_operation and init are      *)
(* translated from the source file.  The per-iteration step, the pass      *)
(* boundary, the learning-rate schedules, the updaters, the cost function  *)
(* and the penalties' proximal maps live in other files of the library     *)
(* and are modelled from the specification's description of them.          *)
(*                                                                         *)
(* The module also models the Bray-Curtis distance                         *)
(* (src/shogun/distance/BrayCurtisDistance.cpp): lhs and rhs are the two   *)
(* feature sets of the distance and compute is translated from the source. *)
(***************************************************************************)
EXTENDS Integers, Sequences, FiniteSets, TLC

VARIABLES
    m_fun,              \* the cost function, or NULL (base-class field)
    m_penalty_type,     \* the penalty strategy, or NULL (base-class field)
    m_penalty_weight,   \* the penalty weight (base-class field)
    m_gradient_updater, \* the updater, or NULL
    m_learning_rate,    \* the learning-rate schedule, or NULL
    m_num_passes,       \* the pass budget
    m_cur_passes,       \* the pass counter
    m_iter_counter,     \* the iteration counter
    x,                  \* the variable vector (owned by the cost function)
    vel,                \* the stateful updater's accumulators (<<>>: not yet sized)
    phase,              \* the life-cycle state of section 4.4 of the specification
    direct_calls,       \* how many direct calls of do_proximal_operation were made
    last,               \* the last call: its name, argument, outcome and what it passed on
    lhs,                \* the distance's left-hand features: a sequence of vectors
    rhs,                \* the distance's right-hand features: a sequence of vectors
    computed            \* the last call of compute and the one before it

vars == <<m_fun, m_penalty_type, m_penalty_weight, m_gradient_updater,
          m_learning_rate, m_num_passes, m_cur_passes, m_iter_counter,
          x, vel, phase, direct_calls, last, lhs, rhs, computed>>

NULL == "NULL"

\* The record of a call of compute: its arguments, the two vectors it read,
\* whether it returned, its value, and the same of the call before it.
ComputeCall(idx_a, idx_b, avec, bvec, ok, value, before) ==
    [idx_a |-> idx_a, idx_b |-> idx_b, avec |-> avec, bvec |-> bvec,
     ok |-> ok, value |-> value, before |-> before]

\* No call of compute was made.
NoCall == [avec |-> <<>>, bvec |-> <<>>, ok |-> FALSE, value |-> NULL]
NotComputed == ComputeCall(NULL, NULL, <<>>, <<>>, FALSE, NULL, NoCall)

(***************************************************************************)
(* Bounds of the model.                                                    *)
(***************************************************************************)
MaxIter == 2
MaxPasses == 2
MaxDirectCalls == 1
MaxRunSteps == 4
MaxValue == 1

(***************************************************************************)
(* Exact rational arithmetic for float64_t values.                         *)
(***************************************************************************)
Abs(n) == IF n < 0 THEN -n ELSE n

RECURSIVE GCD(_, _)
GCD(a, b) == IF b = 0 THEN a ELSE GCD(b, a % b)

Norm(n, d) ==
    LET g == GCD(Abs(n), d)
    IN  <<n \div g, d \div g>>

Zero == <<0, 1>>
One == <<1, 1>>
RNeg(a) == <<-a[1], a[2]>>
\* Sums and products cancel common factors before they multiply.
RAdd(a, b) ==
    LET g == GCD(a[2], b[2])
    IN  Norm(a[1] * (b[2] \div g) + b[1] * (a[2] \div g), (a[2] \div g) * b[2])
RSub(a, b) == RAdd(a, RNeg(b))
RMul(a, b) ==
    LET p == Norm(a[1], b[2])
        q == Norm(b[1], a[2])
    IN  <<p[1] * q[1], p[2] * q[2]>>
RInv(b) == IF b[1] > 0 THEN <<b[2], b[1]>> ELSE <<-b[2], -b[1]>>
RDiv(a, b) == RMul(a, RInv(b))
RLess(a, b) == a[1] * b[2] < b[1] * a[2]
RAbs(a) == <<Abs(a[1]), a[2]>>

\* The integer square root of n, by bisection of lo..hi (lo*lo <= n < hi*hi).
RECURSIVE ISqrtIn(_, _, _)
ISqrtIn(n, lo, hi) ==
    IF hi - lo <= 1 THEN lo
    ELSE LET mid == (lo + hi) \div 2
         IN  IF mid * mid <= n THEN ISqrtIn(n, mid, hi) ELSE ISqrtIn(n, lo, mid)

\* The square root of a >= 0 to a precision of 1/RootGrid, rounded down.
RootGrid == 16
RSqrt(a) ==
    LET n == (RootGrid * RootGrid * a[1]) \div a[2]
    IN  Norm(ISqrtIn(n, 0, IF n < 46340 THEN n + 1 ELSE 46341), RootGrid)


(***************************************************************************)
(* The collaborators of the minimizer.  Their classes are not part of the  *)
(* modelled source file; they follow the specification (sections 4.1-4.3   *)
(* and the scenarios of section 8).                                        *)
(***************************************************************************)

\* The learning-rate schedules: a constant one and an inverse-time one.
Schedules == {"ConstLearningRate", "InverseScalingLearningRate"}
\* The schedule object the driver hands to set_learning_rate.
LearningRates == {"InverseScalingLearningRate"}

\* An inverse-time schedule that grows: initial * (1 + rate * iter).
InverseTime_growing(initial, rate, iter) ==
    RMul(initial, RAdd(One, RMul(rate, <<iter, 1>>)))

\* The inverse-time schedule: initial / (1 + rate * iter).
InverseTime(initial, rate, iter) ==
    RDiv(initial, RAdd(One, RMul(rate, <<iter, 1>>)))

\* A schedule that returns 0 at every iteration (outside the schedules'
\* contract of a positive value; the degenerate input of a zero rate).
ZeroLearningRate == "ZeroLearningRate"

\* get_learning_rate(iter): 1/10 for the constant schedule (section 8),
\* (1/4) / (1 + iter) for the inverse-time schedule with decay rate 1.
get_learning_rate(lr, iter) ==
    IF lr = "ConstLearningRate" THEN <<1, 10>>
    ELSE IF lr = ZeroLearningRate THEN Zero
    ELSE InverseTime(<<1, 4>>, One, iter)

\* The updater variants: plain gradient descent, momentum, and adaptive
\* per-parameter scaling by the root of the accumulated squared gradients.
UpdaterVariants == {"GradientDescendUpdater", "MomentumUpdater", "AdaGradUpdater"}
\* The variants that keep accumulators.
StatefulUpdaters == {"MomentumUpdater", "AdaGradUpdater"}
\* The updater objects the driver hands to set_gradient_updater: two
\* instances of the plain updater.
Updaters == {"GradientDescendUpdater", "GradientDescendUpdater2"}

\* The momentum updater's decay of its running velocity.
Momentum == <<1, 2>>

ZeroVector(n) == [i \in 1..n |-> Zero]

\* The adaptive updater's guard against a zero root.
Epsilon == One

\* The delta of a stateful updater for element i, and its new accumulator.
\* Momentum: the velocity decays and gains step_size * gradient, and is the
\* delta.  Adaptive: the accumulator gains the squared gradient, and the
\* delta is step_size * gradient / (root of the accumulator + Epsilon).
NewAccumulator(updater, old, g, step_size) ==
    IF updater = "MomentumUpdater"
    THEN RAdd(RMul(Momentum, old), RMul(step_size, g))
    ELSE RAdd(old, RMul(g, g))

Delta(updater, acc, g, step_size) ==
    IF updater = "MomentumUpdater"
    THEN acc
    ELSE RDiv(RMul(step_size, g), RAdd(RSqrt(acc), Epsilon))

\* An update_variable that starts its accumulators from ones (storage that
\* was not zeroed).
update_variable_unzeroed(updater, v, grad, step_size, buf) ==
    IF updater \in StatefulUpdaters
    THEN LET old == IF buf = <<>> THEN [i \in 1..Len(grad) |-> One] ELSE buf
         IN  IF Len(old) # Len(grad)
             THEN [ok |-> FALSE, x |-> v, vel |-> buf]
             ELSE LET new == [i \in 1..Len(grad) |->
                                 NewAccumulator(updater, old[i], grad[i], step_size)]
                  IN  [ok |-> TRUE, vel |-> new,
                       x |-> [i \in 1..Len(v) |->
                                 RSub(v[i], Delta(updater, new[i], grad[i], step_size))]]
    ELSE [ok |-> TRUE, vel |-> buf,
          x |-> [i \in 1..Len(v) |-> RSub(v[i], RMul(step_size, grad[i]))]]

\* An update_variable that adds its delta to the variables.
update_variable_ascent(updater, v, grad, step_size, buf) ==
    IF updater \in StatefulUpdaters
    THEN LET old == IF buf = <<>> THEN ZeroVector(Len(grad)) ELSE buf
         IN  IF Len(old) # Len(grad)
             THEN [ok |-> FALSE, x |-> v, vel |-> buf]
             ELSE LET new == [i \in 1..Len(grad) |->
                                 NewAccumulator(updater, old[i], grad[i], step_size)]
                  IN  [ok |-> TRUE, vel |-> new,
                       x |-> [i \in 1..Len(v) |->
                                 RAdd(v[i], Delta(updater, new[i], grad[i], step_size))]]
    ELSE [ok |-> TRUE, vel |-> buf,
          x |-> [i \in 1..Len(v) |-> RAdd(v[i], RMul(step_size, grad[i]))]]

\* An update_variable that re-sizes its accumulators to the gradient when
\* the lengths differ (truncating or zero-padding them) and goes on.
update_variable_resizing(updater, v, grad, step_size, buf) ==
    IF updater \in StatefulUpdaters
    THEN LET old == [i \in 1..Len(grad) |-> IF i <= Len(buf) THEN buf[i] ELSE Zero]
             new == [i \in 1..Len(grad) |->
                        NewAccumulator(updater, old[i], grad[i], step_size)]
         IN  [ok |-> TRUE, vel |-> new,
              x |-> [i \in 1..Len(v) |->
                        RSub(v[i], Delta(updater, new[i], grad[i], step_size))]]
    ELSE [ok |-> TRUE, vel |-> buf,
          x |-> [i \in 1..Len(v) |-> RSub(v[i], RMul(step_size, grad[i]))]]

\* An updater computes its delta from the gradient and the step size and
\* applies it to the variable vector in place.  A stateful updater sizes its
\* accumulators (zeros) to the gradient on first use and fails fast, before
\* it changes anything, when a later gradient has another length.
update_variable(updater, v, grad, step_size, buf) ==
    IF updater \in StatefulUpdaters
    THEN LET old == IF buf = <<>> THEN ZeroVector(Len(grad)) ELSE buf
         IN  IF Len(old) # Len(grad)
             THEN [ok |-> FALSE, x |-> v, vel |-> buf]
             ELSE LET new == [i \in 1..Len(grad) |->
                                 NewAccumulator(updater, old[i], grad[i], step_size)]
                  IN  [ok |-> TRUE, vel |-> new,
                       x |-> [i \in 1..Len(v) |->
                                 RSub(v[i], Delta(updater, new[i], grad[i], step_size))]]
    ELSE [ok |-> TRUE, vel |-> buf,
          x |-> [i \in 1..Len(v) |-> RSub(v[i], RMul(step_size, grad[i]))]]

\* The cost function of section 8: f(x) = sum of x_i^2, with gradient 2x.
CostFunctions == {"QuadraticCost"}
\* A cost function whose gradient is the zero vector everywhere.
ZeroCost == "ZeroCost"
get_gradient(fun, v) ==
    IF fun = ZeroCost THEN ZeroVector(Len(v))
    ELSE [i \in 1..Len(v) |-> RMul(<<2, 1>>, v[i])]

\* The penalty strategies along the two capability axes of section 4.3:
\* neither capability, proximal-capable, proximal-capable and sparse.
PenaltyTypes == {"SmoothPenalty", "DenseProximalPenalty", "SparseProximalPenalty"}
ProximalPenalty == {"DenseProximalPenalty", "SparseProximalPenalty"}
SparsePenalty == {"SparseProximalPenalty"}

\* Soft-thresholding of one element toward zero by w.
SoftThreshold(a, w) ==
    IF RLess(w, RAbs(a))
    THEN IF a[1] > 0 THEN RSub(a, w) ELSE RAdd(a, w)
    ELSE Zero

\* update_variable_for_proximity: soft-thresholding for the sparse penalty,
\* the proportional shrink v / (1 + w) for the dense one.
update_variable_for_proximity(ptype, v, w) ==
    IF ptype \in SparsePenalty
    THEN [i \in 1..Len(v) |-> SoftThreshold(v[i], w)]
    ELSE [i \in 1..Len(v) |-> RDiv(v[i], RAdd(One, w))]

\* The configurations a run starts from.
PenaltyWeights == {<<1, 4>>}
InitialVariables == {<<(<<2, 1>>), (<<-1, 100>>)>>}

\* The step size without a schedule: the configured constant, 1.
DefaultStepSize == One

(***************************************************************************)
(* The minimizer's own operations, from the source file.                   *)
(***************************************************************************)

\* What a call leaves in `last`: op and ok are the call and whether it
\* returned normally; arg is a setter's argument; step_size is the step size
\* a step handed to the updater; prox_called and prox_weight are whether
\* update_variable_for_proximity was invoked and with which effective weight.
Call(op, arg, ok, step_size, prox_called, prox_weight) ==
    [op |-> op, arg |-> arg, ok |-> ok, step_size |-> step_size,
     prox_called |-> prox_called, prox_weight |-> prox_weight]

Plain(op, arg, ok) == Call(op, arg, ok, Zero, FALSE, Zero)

\* An init() that starts the pass budget at 1.
Init_preset ==
    /\ m_fun \in CostFunctions \cup {NULL}
    /\ m_penalty_type \in PenaltyTypes \cup {NULL}
    /\ m_penalty_weight \in PenaltyWeights
    /\ x \in InitialVariables
    /\ m_gradient_updater = NULL
    /\ m_learning_rate = NULL
    /\ m_num_passes = 1
    /\ m_cur_passes = 0
    /\ m_iter_counter = 0
    /\ vel = <<>>
    /\ phase = "Unconfigured"
    /\ direct_calls = 0
    /\ lhs = <<>>
    /\ rhs = <<>>
    /\ computed = NotComputed
    /\ last = Plain("init", NULL, TRUE)

\* init(): the state of a freshly constructed minimizer.  The cost function,
\* the penalty and the variable vector are what the run is constructed and
\* configured with; they do not change during a run.
Init ==
    /\ m_fun \in CostFunctions \cup {NULL}
    /\ m_penalty_type \in PenaltyTypes \cup {NULL}
    /\ m_penalty_weight \in PenaltyWeights
    /\ x \in InitialVariables
    /\ m_gradient_updater = NULL
    /\ m_learning_rate = NULL
    /\ m_num_passes = 0
    /\ m_cur_passes = 0
    /\ m_iter_counter = 0
    /\ vel = <<>>
    /\ phase = "Unconfigured"
    /\ direct_calls = 0
    /\ lhs = <<>>
    /\ rhs = <<>>
    /\ computed = NotComputed
    /\ last = Plain("init", NULL, TRUE)

\* A set_gradient_updater without its require: it stores a null updater.
set_gradient_updater_unchecked(gradient_updater) ==
    /\ m_gradient_updater' = gradient_updater
    /\ last' = Plain("set_gradient_updater", gradient_updater, TRUE)
    /\ UNCHANGED <<lhs, rhs, computed,
                   m_fun, m_penalty_type, m_penalty_weight, m_learning_rate,
                   m_num_passes, m_cur_passes, m_iter_counter, x, vel, phase,
                   direct_calls>>

\* set_gradient_updater(gradient_updater)
set_gradient_updater(gradient_updater) ==
    /\ IF gradient_updater # NULL
       THEN /\ m_gradient_updater' =
                 IF m_gradient_updater # gradient_updater
                 THEN gradient_updater ELSE m_gradient_updater
            /\ last' = Plain("set_gradient_updater", gradient_updater, TRUE)
       ELSE /\ m_gradient_updater' = m_gradient_updater
            /\ last' = Plain("set_gradient_updater", gradient_updater, FALSE)
    /\ UNCHANGED <<lhs, rhs, computed,
                   m_fun, m_penalty_type, m_penalty_weight, m_learning_rate,
                   m_num_passes, m_cur_passes, m_iter_counter, x, vel, phase,
                   direct_calls>>

\* A set_number_passes that assigns the pass counter in place of the budget
\* (m_cur_passes for m_num_passes).
set_number_passes_wrong_field(num_passes) ==
    /\ IF num_passes > 0
       THEN /\ m_cur_passes' = num_passes
            /\ last' = Plain("set_number_passes", num_passes, TRUE)
       ELSE /\ m_cur_passes' = m_cur_passes
            /\ last' = Plain("set_number_passes", num_passes, FALSE)
    /\ UNCHANGED <<lhs, rhs, computed,
                   m_fun, m_penalty_type, m_penalty_weight, m_gradient_updater,
                   m_learning_rate, m_num_passes, m_iter_counter, x, vel, phase,
                   direct_calls>>

\* A set_number_passes whose require reads num_passes>=0.
set_number_passes_nonnegative(num_passes) ==
    /\ IF num_passes >= 0
       THEN /\ m_num_passes' = num_passes
            /\ last' = Plain("set_number_passes", num_passes, TRUE)
       ELSE /\ m_num_passes' = m_num_passes
            /\ last' = Plain("set_number_passes", num_passes, FALSE)
    /\ UNCHANGED <<lhs, rhs, computed,
                   m_fun, m_penalty_type, m_penalty_weight, m_gradient_updater,
                   m_learning_rate, m_cur_passes, m_iter_counter, x, vel, phase,
                   direct_calls>>

\* set_number_passes(num_passes)
set_number_passes(num_passes) ==
    /\ IF num_passes > 0
       THEN /\ m_num_passes' = num_passes
            /\ last' = Plain("set_number_passes", num_passes, TRUE)
       ELSE /\ m_num_passes' = m_num_passes
            /\ last' = Plain("set_number_passes", num_passes, FALSE)
    /\ UNCHANGED <<lhs, rhs, computed,
                   m_fun, m_penalty_type, m_penalty_weight, m_gradient_updater,
                   m_learning_rate, m_cur_passes, m_iter_counter, x, vel, phase,
                   direct_calls>>

\* A set_learning_rate that ignores a null schedule.
set_learning_rate_ignoring_null(learning_rate) ==
    /\ m_learning_rate' =
          IF learning_rate # NULL /\ m_learning_rate # learning_rate
          THEN learning_rate ELSE m_learning_rate
    /\ last' = Plain("set_learning_rate", learning_rate, TRUE)
    /\ UNCHANGED <<lhs, rhs, computed,
                   m_fun, m_penalty_type, m_penalty_weight, m_gradient_updater,
                   m_num_passes, m_cur_passes, m_iter_counter, x, vel, phase,
                   direct_calls>>

\* set_learning_rate(learning_rate)
set_learning_rate(learning_rate) ==
    /\ m_learning_rate' =
          IF m_learning_rate # learning_rate
          THEN learning_rate ELSE m_learning_rate
    /\ last' = Plain("set_learning_rate", learning_rate, TRUE)
    /\ UNCHANGED <<lhs, rhs, computed,
                   m_fun, m_penalty_type, m_penalty_weight, m_gradient_updater,
                   m_num_passes, m_cur_passes, m_iter_counter, x, vel, phase,
                   direct_calls>>

\* A do_proximal_operation without the learning-rate require: a sparse
\* penalty without a schedule gets the unscaled weight.
do_proximal_operation_unchecked(variable_reference) ==
    IF m_penalty_type \in ProximalPenalty
    THEN LET proximal_weight ==
                 IF m_penalty_type \in SparsePenalty /\ m_learning_rate # NULL
                 THEN RMul(m_penalty_weight,
                           get_learning_rate(m_learning_rate, m_iter_counter))
                 ELSE m_penalty_weight
         IN  [ok |-> TRUE, called |-> TRUE, weight |-> proximal_weight,
              v |-> update_variable_for_proximity(
                        m_penalty_type, variable_reference, proximal_weight)]
    ELSE [ok |-> TRUE, called |-> FALSE, weight |-> Zero, v |-> variable_reference]

\* A do_proximal_operation whose require comes after the proximal update:
\* the vector is already changed when the call fails.
do_proximal_operation_late_require(variable_reference) ==
    IF m_penalty_type \in ProximalPenalty
    THEN IF m_penalty_type \in SparsePenalty /\ m_learning_rate = NULL
         THEN [ok |-> FALSE, called |-> TRUE, weight |-> m_penalty_weight,
               v |-> update_variable_for_proximity(
                         m_penalty_type, variable_reference, m_penalty_weight)]
         ELSE LET proximal_weight ==
                      IF m_penalty_type \in SparsePenalty
                      THEN RMul(m_penalty_weight,
                                get_learning_rate(m_learning_rate, m_iter_counter))
                      ELSE m_penalty_weight
              IN  [ok |-> TRUE, called |-> TRUE, weight |-> proximal_weight,
                   v |-> update_variable_for_proximity(
                             m_penalty_type, variable_reference, proximal_weight)]
    ELSE [ok |-> TRUE, called |-> FALSE, weight |-> Zero, v |-> variable_reference]

\* A do_proximal_operation that indexes the schedule with the next
\* iteration, m_iter_counter+1.
do_proximal_operation_next_iter(variable_reference) ==
    IF m_penalty_type \in ProximalPenalty
    THEN IF m_penalty_type \in SparsePenalty /\ m_learning_rate = NULL
         THEN [ok |-> FALSE, called |-> FALSE, weight |-> Zero,
               v |-> variable_reference]
         ELSE LET proximal_weight ==
                      IF m_penalty_type \in SparsePenalty
                      THEN RMul(m_penalty_weight,
                                get_learning_rate(m_learning_rate, m_iter_counter + 1))
                      ELSE m_penalty_weight
              IN  [ok |-> TRUE, called |-> TRUE, weight |-> proximal_weight,
                   v |-> update_variable_for_proximity(
                             m_penalty_type, variable_reference, proximal_weight)]
    ELSE [ok |-> TRUE, called |-> FALSE, weight |-> Zero, v |-> variable_reference]

\* A do_proximal_operation without the sparse test: every proximal penalty
\* needs the schedule and has its weight scaled by it.
do_proximal_operation_always_scaled(variable_reference) ==
    IF m_penalty_type \in ProximalPenalty
    THEN IF m_learning_rate # NULL
         THEN LET proximal_weight ==
                      RMul(m_penalty_weight,
                           get_learning_rate(m_learning_rate, m_iter_counter))
              IN  [ok |-> TRUE, called |-> TRUE, weight |-> proximal_weight,
                   v |-> update_variable_for_proximity(
                             m_penalty_type, variable_reference, proximal_weight)]
         ELSE [ok |-> FALSE, called |-> FALSE, weight |-> Zero,
               v |-> variable_reference]
    ELSE [ok |-> TRUE, called |-> FALSE, weight |-> Zero, v |-> variable_reference]

\* A do_proximal_operation that takes every configured penalty for a
\* proximal one (it tests m_penalty_type in place of the cast's result).
do_proximal_operation_any_penalty(variable_reference) ==
    IF m_penalty_type # NULL
    THEN IF m_penalty_type \in SparsePenalty
         THEN IF m_learning_rate # NULL
              THEN LET proximal_weight ==
                           RMul(m_penalty_weight,
                                get_learning_rate(m_learning_rate, m_iter_counter))
                   IN  [ok |-> TRUE, called |-> TRUE, weight |-> proximal_weight,
                        v |-> update_variable_for_proximity(
                                  m_penalty_type, variable_reference, proximal_weight)]
              ELSE [ok |-> FALSE, called |-> FALSE, weight |-> Zero,
                    v |-> variable_reference]
         ELSE [ok |-> TRUE, called |-> TRUE, weight |-> m_penalty_weight,
               v |-> update_variable_for_proximity(
                         m_penalty_type, variable_reference, m_penalty_weight)]
    ELSE [ok |-> TRUE, called |-> FALSE, weight |-> Zero, v |-> variable_reference]

\* A do_proximal_operation that does not scale a sparse penalty's weight by
\* the learning rate.
do_proximal_operation_unscaled(variable_reference) ==
    IF m_penalty_type \in ProximalPenalty
    THEN IF m_penalty_type \in SparsePenalty /\ m_learning_rate = NULL
         THEN [ok |-> FALSE, called |-> FALSE, weight |-> Zero,
               v |-> variable_reference]
         ELSE [ok |-> TRUE, called |-> TRUE, weight |-> m_penalty_weight,
               v |-> update_variable_for_proximity(
                         m_penalty_type, variable_reference, m_penalty_weight)]
    ELSE [ok |-> TRUE, called |-> FALSE, weight |-> Zero, v |-> variable_reference]

\* A do_proximal_operation that adds the learning rate to the weight of a
\* sparse penalty (proximal_weight += ...).
do_proximal_operation_additive(variable_reference) ==
    IF m_penalty_type \in ProximalPenalty
    THEN IF m_penalty_type \in SparsePenalty
         THEN IF m_learning_rate # NULL
              THEN LET proximal_weight ==
                           RAdd(m_penalty_weight,
                                get_learning_rate(m_learning_rate, m_iter_counter))
                   IN  [ok |-> TRUE, called |-> TRUE, weight |-> proximal_weight,
                        v |-> update_variable_for_proximity(
                                  m_penalty_type, variable_reference, proximal_weight)]
              ELSE [ok |-> FALSE, called |-> FALSE, weight |-> Zero,
                    v |-> variable_reference]
         ELSE [ok |-> TRUE, called |-> TRUE, weight |-> m_penalty_weight,
               v |-> update_variable_for_proximity(
                         m_penalty_type, variable_reference, m_penalty_weight)]
    ELSE [ok |-> TRUE, called |-> FALSE, weight |-> Zero, v |-> variable_reference]

\* do_proximal_operation(variable_reference), as a function of the fields it
\* reads: whether it returned normally, the vector it leaves, whether it
\* invoked update_variable_for_proximity and with which weight.
do_proximal_operation(variable_reference) ==
    IF m_penalty_type \in ProximalPenalty
    THEN IF m_penalty_type \in SparsePenalty
         THEN IF m_learning_rate # NULL
              THEN LET proximal_weight ==
                           RMul(m_penalty_weight,
                                get_learning_rate(m_learning_rate, m_iter_counter))
                   IN  [ok |-> TRUE, called |-> TRUE, weight |-> proximal_weight,
                        v |-> update_variable_for_proximity(
                                  m_penalty_type, variable_reference, proximal_weight)]
              ELSE [ok |-> FALSE, called |-> FALSE, weight |-> Zero,
                    v |-> variable_reference]
         ELSE [ok |-> TRUE, called |-> TRUE, weight |-> m_penalty_weight,
               v |-> update_variable_for_proximity(
                         m_penalty_type, variable_reference, m_penalty_weight)]
    ELSE [ok |-> TRUE, called |-> FALSE, weight |-> Zero, v |-> variable_reference]

\* The requires of init_minimization() without the one on the updater.
init_minimization_require_no_updater ==
    /\ m_fun # NULL
    /\ m_num_passes > 0

\* The conditions init_minimization() requires.
init_minimization_require ==
    /\ m_fun # NULL
    /\ m_gradient_updater # NULL
    /\ m_num_passes > 0

\* An init_minimization() that leaves the pass counter as it is.
init_minimization_no_reset ==
    /\ IF init_minimization_require
       THEN /\ phase' = "Initialized"
            /\ last' = Plain("init_minimization", NULL, TRUE)
       ELSE /\ phase' = phase
            /\ last' = Plain("init_minimization", NULL, FALSE)
    /\ UNCHANGED <<lhs, rhs, computed,
                   m_fun, m_penalty_type, m_penalty_weight, m_gradient_updater,
                   m_learning_rate, m_num_passes, m_cur_passes, m_iter_counter,
                   x, vel, direct_calls>>

\* An init_minimization() that re-runs init() when a require fails.
init_minimization_reinit ==
    /\ IF init_minimization_require
       THEN /\ m_cur_passes' = 0
            /\ phase' = "Initialized"
            /\ last' = Plain("init_minimization", NULL, TRUE)
            /\ UNCHANGED <<m_gradient_updater, m_learning_rate, m_num_passes,
                           m_iter_counter>>
       ELSE /\ m_gradient_updater' = NULL
            /\ m_learning_rate' = NULL
            /\ m_num_passes' = 0
            /\ m_cur_passes' = 0
            /\ m_iter_counter' = 0
            /\ phase' = phase
            /\ last' = Plain("init_minimization", NULL, FALSE)
    /\ UNCHANGED <<lhs, rhs, computed,
                   m_fun, m_penalty_type, m_penalty_weight, x, vel,
                   direct_calls>>

\* An init_minimization() that also resets the iteration counter.
init_minimization_reset_all ==
    /\ IF init_minimization_require
       THEN /\ m_cur_passes' = 0
            /\ m_iter_counter' = 0
            /\ phase' = "Initialized"
            /\ last' = Plain("init_minimization", NULL, TRUE)
       ELSE /\ m_cur_passes' = m_cur_passes
            /\ m_iter_counter' = m_iter_counter
            /\ phase' = phase
            /\ last' = Plain("init_minimization", NULL, FALSE)
    /\ UNCHANGED <<lhs, rhs, computed,
                   m_fun, m_penalty_type, m_penalty_weight, m_gradient_updater,
                   m_learning_rate, m_num_passes, x, vel,
                   direct_calls>>

\* init_minimization()
init_minimization ==
    /\ IF init_minimization_require
       THEN /\ m_cur_passes' = 0
            /\ phase' = "Initialized"
            /\ last' = Plain("init_minimization", NULL, TRUE)
       ELSE /\ m_cur_passes' = m_cur_passes
            /\ phase' = phase
            /\ last' = Plain("init_minimization", NULL, FALSE)
    /\ UNCHANGED <<lhs, rhs, computed,
                   m_fun, m_penalty_type, m_penalty_weight, m_gradient_updater,
                   m_learning_rate, m_num_passes, m_iter_counter, x, vel,
                   direct_calls>>

\* A direct call of a do_proximal_operation that advances the iteration
\* counter itself.
proximal_call_counting ==
    LET r == do_proximal_operation(x)
    IN  /\ direct_calls < MaxDirectCalls
        /\ direct_calls' = direct_calls + 1
        /\ x' = r.v
        /\ m_iter_counter' = IF m_iter_counter < MaxIter
                              THEN m_iter_counter + 1 ELSE m_iter_counter
        /\ last' = Call("do_proximal_operation", NULL, r.ok, Zero, r.called, r.weight)
        /\ UNCHANGED <<lhs, rhs, computed,
                       m_fun, m_penalty_type, m_penalty_weight, m_gradient_updater,
                       m_learning_rate, m_num_passes, m_cur_passes, vel, phase>>

\* A direct call of do_proximal_operation on the variable vector (the
\* operation is open to the concrete minimizers built on this class).
proximal_call ==
    LET r == do_proximal_operation(x)
    IN  /\ direct_calls < MaxDirectCalls
        /\ direct_calls' = direct_calls + 1
        /\ x' = r.v
        /\ last' = Call("do_proximal_operation", NULL, r.ok, Zero, r.called, r.weight)
        /\ UNCHANGED <<lhs, rhs, computed,
                       m_fun, m_penalty_type, m_penalty_weight, m_gradient_updater,
                       m_learning_rate, m_num_passes, m_cur_passes, m_iter_counter,
                       vel, phase>>

(***************************************************************************)
(* The per-iteration step and the pass boundary, from section 4.4 of the   *)
(* specification: gradient query, step size, updater, proximal correction, *)
(* iteration-counter increment.  The updater changes the variable vector   *)
(* in place before do_proximal_operation runs.  The class keeps no record  *)
(* of a terminal state and none of its operations compares m_cur_passes    *)
(* with m_num_passes, so a step is taken in PassLimitReached as in Running.*)
(***************************************************************************)
step_size_at(iter) ==
    IF m_learning_rate # NULL
    THEN get_learning_rate(m_learning_rate, iter)
    ELSE DefaultStepSize

\* One step.  A step the updater rejects changes nothing; a step that
\* do_proximal_operation rejects keeps what the updater did.
step_once ==
    /\ phase \in {"Initialized", "Running", "PassLimitReached"}
    /\ LET grad == get_gradient(m_fun, x)
           step_size == step_size_at(m_iter_counter)
           upd == update_variable(m_gradient_updater, x, grad, step_size, vel)
           r == IF upd.ok THEN do_proximal_operation(upd.x)
                ELSE [ok |-> FALSE, called |-> FALSE, weight |-> Zero, v |-> upd.x]
       IN  /\ x' = r.v
           /\ vel' = upd.vel
           /\ m_iter_counter' = IF r.ok THEN m_iter_counter + 1 ELSE m_iter_counter
           /\ phase' = IF r.ok /\ phase = "Initialized" THEN "Running" ELSE phase
           /\ last' = Call("step", NULL, r.ok, step_size, r.called, r.weight)
    /\ UNCHANGED <<lhs, rhs, computed,
                   m_fun, m_penalty_type, m_penalty_weight, m_gradient_updater,
                   m_learning_rate, m_num_passes, m_cur_passes, direct_calls>>

\* A step of a run of at most MaxIter steps.
step ==
    /\ m_iter_counter < MaxIter
    /\ step_once

\* The driving loop completes a pass over the data: it increments the pass
\* counter and compares it with the budget.
end_pass ==
    /\ phase = "Running"
    /\ m_cur_passes < MaxPasses
    /\ m_cur_passes' = m_cur_passes + 1
    /\ phase' = IF m_cur_passes + 1 >= m_num_passes THEN "PassLimitReached" ELSE phase
    /\ last' = Plain("end_pass", NULL, TRUE)
    /\ UNCHANGED <<lhs, rhs, computed,
                   m_fun, m_penalty_type, m_penalty_weight, m_gradient_updater,
                   m_learning_rate, m_num_passes, m_iter_counter, x, vel,
                   direct_calls>>

Next ==
    \/ \E u \in Updaters \cup {NULL} : set_gradient_updater(u)
    \/ \E n \in -1..MaxPasses : set_number_passes(n)
    \/ \E l \in LearningRates \cup {NULL} : set_learning_rate(l)
    \/ init_minimization
    \/ proximal_call
    \/ step
    \/ end_pass

Spec == Init /\ [][Next]_vars

(***************************************************************************)
(* Runs of an initialized minimizer without a penalty, one for each        *)
(* updater variant, schedule, cost function and starting point.            *)
(***************************************************************************)
UpdaterInitialVariables ==
    { <<(<<2, 1>>), (<<-1, 100>>)>>,
      <<(<<10, 1>>)>>,
      <<(<<-3, 1>>), (<<1, 2>>), Zero>> }

InitUpdaters ==
    /\ m_fun \in CostFunctions \cup {ZeroCost}
    /\ m_penalty_type = NULL
    /\ m_penalty_weight \in PenaltyWeights
    /\ x \in UpdaterInitialVariables
    /\ m_gradient_updater \in UpdaterVariants
    \* (the adaptive updater's quotients leave the integer range within a
    \* few steps on a non-zero gradient)
    /\ m_gradient_updater = "AdaGradUpdater" => m_fun = ZeroCost
    /\ m_learning_rate \in Schedules \cup {NULL}
    /\ m_num_passes = 1
    /\ m_cur_passes = 0
    /\ m_iter_counter = 0
    /\ vel = <<>>
    /\ phase = "Initialized"
    /\ direct_calls = 0
    /\ lhs = <<>>
    /\ rhs = <<>>
    /\ computed = NotComputed
    /\ last = Plain("init_minimization", NULL, TRUE)

\* A step of a run of at most MaxRunSteps steps.
run_step ==
    /\ m_iter_counter < MaxRunSteps
    /\ step_once

NextUpdaters == run_step

SpecUpdaters == InitUpdaters /\ [][NextUpdaters]_vars

\* The updater is driven on the variables of another problem (the updater
\* is shared by reference, section 5); it keeps its accumulators.
rebind_variables(v) ==
    /\ v # x
    /\ x' = v
    /\ last' = Plain("rebind_variables", NULL, TRUE)
    /\ UNCHANGED <<lhs, rhs, computed,
                   m_fun, m_penalty_type, m_penalty_weight, m_gradient_updater,
                   m_learning_rate, m_num_passes, m_cur_passes, m_iter_counter,
                   vel, phase, direct_calls>>

NextShapes ==
    \/ run_step
    \/ \E v \in UpdaterInitialVariables : rebind_variables(v)

SpecShapes == InitUpdaters /\ [][NextShapes]_vars

(***************************************************************************)
(* The Bray-Curtis distance between vector idx_a of lhs and vector idx_b   *)
(* of rhs.  The elements are multiples of 1/2 of magnitude at most         *)
(* MaxValue / 2; lhs holds one vector and rhs two, of 1 or 2 elements.     *)
(***************************************************************************)
FeatureValues == {Norm(v, 2) : v \in -MaxValue..MaxValue}
FeatureLengths == {1, 2}
FeatureVectors(n) == [1..n -> FeatureValues]

\* DenseFeatures: num_vectors vectors of one length.
DenseFeatures(num_vectors) ==
    UNION {[1..num_vectors -> FeatureVectors(n)] : n \in FeatureLengths}

\* An s1 that sums the differences without fabs.
RECURSIVE s1_signed(_, _, _)
s1_signed(avec, bvec, i) ==
    IF i = 0 THEN Zero
    ELSE RAdd(s1_signed(avec, bvec, i - 1), RSub(avec[i], bvec[i]))

\* The loop of compute over the first i elements: s1 and s2.
RECURSIVE s1(_, _, _)
s1(avec, bvec, i) ==
    IF i = 0 THEN Zero
    ELSE RAdd(s1(avec, bvec, i - 1), RAbs(RSub(avec[i], bvec[i])))

RECURSIVE s2(_, _, _)
s2(avec, bvec, i) ==
    IF i = 0 THEN Zero
    ELSE RAdd(s2(avec, bvec, i - 1), RAbs(RAdd(avec[i], bvec[i])))

\* The value of float64_t a / 0 for a >= 0: not a number (0/0) for a = 0,
\* else infinite (1/0).
DivisionByZero(a) == IF a = Zero THEN <<0, 0>> ELSE <<1, 0>>

InitBrayCurtis ==
    /\ m_fun = NULL
    /\ m_penalty_type = NULL
    /\ m_penalty_weight = Zero
    /\ x = <<>>
    /\ m_gradient_updater = NULL
    /\ m_learning_rate = NULL
    /\ m_num_passes = 0
    /\ m_cur_passes = 0
    /\ m_iter_counter = 0
    /\ vel = <<>>
    /\ phase = "Unconfigured"
    /\ direct_calls = 0
    /\ last = Plain("init", NULL, TRUE)
    /\ lhs \in DenseFeatures(1)
    /\ rhs \in DenseFeatures(2)
    /\ computed = NotComputed

\* A compute without the trap of the division by zero.
compute_untrapped(idx_a, idx_b) ==
    LET avec == lhs[idx_a + 1]
        bvec == rhs[idx_b + 1]
        alen == Len(avec)
        blen == Len(bvec)
        before == [avec |-> computed.avec, bvec |-> computed.bvec,
                   ok |-> computed.ok, value |-> computed.value]
    IN  /\ computed' =
              IF alen # blen
              THEN ComputeCall(idx_a, idx_b, avec, bvec, FALSE, NULL, before)
              ELSE ComputeCall(idx_a, idx_b, avec, bvec, TRUE,
                       IF s2(avec, bvec, alen) = Zero THEN DivisionByZero(s1(avec, bvec, alen))
                       ELSE RDiv(s1(avec, bvec, alen), s2(avec, bvec, alen)),
                       before)
        /\ UNCHANGED <<lhs, rhs, m_fun, m_penalty_type, m_penalty_weight,
                       m_gradient_updater, m_learning_rate, m_num_passes,
                       m_cur_passes, m_iter_counter, x, vel, phase,
                       direct_calls, last>>

\* compute(idx_a, idx_b): ASSERT(alen==blen) ends the call without a value;
\* otherwise the value is 0 when s2 is 0, and s1 / s2 when it is not.
compute(idx_a, idx_b) ==
    LET avec == lhs[idx_a + 1]
        bvec == rhs[idx_b + 1]
        alen == Len(avec)
        blen == Len(bvec)
        before == [avec |-> computed.avec, bvec |-> computed.bvec,
                   ok |-> computed.ok, value |-> computed.value]
    IN  /\ computed' =
              IF alen # blen
              THEN ComputeCall(idx_a, idx_b, avec, bvec, FALSE, NULL, before)
              ELSE ComputeCall(idx_a, idx_b, avec, bvec, TRUE,
                       IF s2(avec, bvec, alen) = Zero THEN Zero
                       ELSE RDiv(s1(avec, bvec, alen), s2(avec, bvec, alen)),
                       before)
        /\ UNCHANGED <<lhs, rhs, m_fun, m_penalty_type, m_penalty_weight,
                       m_gradient_updater, m_learning_rate, m_num_passes,
                       m_cur_passes, m_iter_counter, x, vel, phase,
                       direct_calls, last>>

NextBrayCurtis ==
    \E idx_a \in 0..(Len(lhs) - 1) : \E idx_b \in 0..(Len(rhs) - 1) :
        compute(idx_a, idx_b)

SpecBrayCurtis == InitBrayCurtis /\ [][NextBrayCurtis]_vars

\* init(l, r): the distance is set up again on the features l and r.
init(l, r) ==
    /\ <<l, r>> # <<lhs, rhs>>
    /\ lhs' = l
    /\ rhs' = r
    /\ UNCHANGED <<computed, m_fun, m_penalty_type, m_penalty_weight,
                   m_gradient_updater, m_learning_rate, m_num_passes,
                   m_cur_passes, m_iter_counter, x, vel, phase,
                   direct_calls, last>>

\* A distance on two feature sets of one vector each, which can be set up
\* again with the two sets exchanged.
InitExchange ==
    /\ m_fun = NULL
    /\ m_penalty_type = NULL
    /\ m_penalty_weight = Zero
    /\ x = <<>>
    /\ m_gradient_updater = NULL
    /\ m_learning_rate = NULL
    /\ m_num_passes = 0
    /\ m_cur_passes = 0
    /\ m_iter_counter = 0
    /\ vel = <<>>
    /\ phase = "Unconfigured"
    /\ direct_calls = 0
    /\ last = Plain("init", NULL, TRUE)
    /\ lhs \in DenseFeatures(1)
    /\ rhs \in DenseFeatures(1)
    /\ computed = NotComputed

NextExchange ==
    \/ \E idx_a \in 0..(Len(lhs) - 1) : \E idx_b \in 0..(Len(rhs) - 1) :
           compute(idx_a, idx_b)
    \/ init(rhs, lhs)

SpecExchange == InitExchange /\ [][NextExchange]_vars

(***************************************************************************)
(* Runs of an initialized minimizer with each penalty, with a zero and a   *)
(* non-zero penalty weight and with each schedule, the zero one included.  *)
(***************************************************************************)
ProximalWeights == {Zero, <<1, 4>>}

InitProximal ==
    /\ m_fun \in CostFunctions
    /\ m_penalty_type \in PenaltyTypes \cup {NULL}
    /\ m_penalty_weight \in ProximalWeights
    /\ x \in UpdaterInitialVariables
    /\ m_gradient_updater \in Updaters
    /\ m_learning_rate \in Schedules \cup {ZeroLearningRate, NULL}
    /\ m_num_passes = 1
    /\ m_cur_passes = 0
    /\ m_iter_counter = 0
    /\ vel = <<>>
    /\ phase = "Initialized"
    /\ direct_calls = 0
    /\ lhs = <<>>
    /\ rhs = <<>>
    /\ computed = NotComputed
    /\ last = Plain("init_minimization", NULL, TRUE)

NextProximal ==
    \/ proximal_call
    \/ step

SpecProximal == InitProximal /\ [][NextProximal]_vars

(***************************************************************************)
(* The properties.                                                         *)
(***************************************************************************)

\* C1: init_minimization() fails whenever the cost function is absent, the
\* updater is absent or the pass budget is not positive, and succeeds only
\* when all three are present.  (init_minimization leaves the three fields
\* as they were, so they are read in the state after the call.)
C1_InitMinimizationValidates ==
    last.op = "init_minimization" =>
        (last.ok <=> (m_fun # NULL /\ m_gradient_updater # NULL /\ m_num_passes > 0))

\* C1 witness: init_minimization() has failed for the missing updater alone.
C1_Witness ==
    /\ last.op = "init_minimization"
    /\ ~last.ok
    /\ m_fun # NULL
    /\ m_num_passes > 0
    /\ m_gradient_updater = NULL

\* C2: set_number_passes(n) fails for every n <= 0 and then leaves the pass
\* budget unchanged; for n > 0 it succeeds and stores n; no other call
\* changes the pass budget, so it equals n until the next successful
\* set_number_passes.
C2_SetNumberPasses ==
    /\ [](last.op = "set_number_passes" =>
            /\ last.ok <=> last.arg > 0
            /\ last.ok => m_num_passes = last.arg)
    /\ [][/\ (last'.op = "set_number_passes" /\ ~last'.ok) =>
                m_num_passes' = m_num_passes
          /\ m_num_passes' # m_num_passes =>
                (last'.op = "set_number_passes" /\ last'.ok)]_vars

\* C2 witness: a set_number_passes(n) with n <= 0 has failed on a minimizer
\* whose budget was set before, and the budget is still positive.
C2_Witness ==
    /\ last.op = "set_number_passes"
    /\ ~last.ok
    /\ last.arg <= 0
    /\ m_num_passes = MaxPasses

\* C3: set_gradient_updater(null) is rejected and leaves the stored updater
\* unchanged; once an updater is set, the stored updater is non-null in
\* every later state.
C3_UpdaterStaysSet ==
    /\ []((last.op = "set_gradient_updater" /\ last.arg = NULL) => ~last.ok)
    /\ [][/\ (last'.op = "set_gradient_updater" /\ ~last'.ok) =>
                m_gradient_updater' = m_gradient_updater
          /\ m_gradient_updater # NULL => m_gradient_updater' # NULL]_vars

\* C3 witness: set_gradient_updater(null) was rejected on a minimizer that
\* holds an updater.
C3_Witness ==
    /\ last.op = "set_gradient_updater"
    /\ last.arg = NULL
    /\ ~last.ok
    /\ m_gradient_updater # NULL

\* The conditions init_minimization() checks, read from the fields.
Configured ==
    /\ m_fun # NULL
    /\ m_gradient_updater # NULL
    /\ m_num_passes > 0

\* A sparsity-inducing penalty is configured and no schedule is set.
SparseWithoutRate ==
    /\ m_penalty_type \in SparsePenalty
    /\ m_learning_rate = NULL

\* C4 as stated: with a sparsity-inducing penalty and no learning-rate
\* schedule, init_minimization() fails.
C4_AsStated ==
    (last.op = "init_minimization" /\ SparseWithoutRate) => ~last.ok

\* C4 amended: with a sparsity-inducing penalty and no learning-rate
\* schedule, init_minimization() does not look at the learning rate (it
\* succeeds exactly when cost function, updater and positive budget are
\* present); the missing learning rate is reported by
\* do_proximal_operation, called directly or by a step, which fails without
\* invoking update_variable_for_proximity.
C4_ReportedByProximalOperation ==
    SparseWithoutRate =>
        /\ last.op = "init_minimization" => (last.ok <=> Configured)
        /\ last.op \in {"step", "do_proximal_operation"} =>
              (~last.ok /\ ~last.prox_called)

\* C4 witness: init_minimization() has succeeded with a sparsity-inducing
\* penalty and no schedule.
C4_Witness ==
    /\ last.op = "init_minimization"
    /\ last.ok
    /\ SparseWithoutRate

\* C5 as stated: after every successful init_minimization() the pass counter
\* and the iteration counter are both zero.
C5_AsStated ==
    (last.op = "init_minimization" /\ last.ok) =>
        (m_cur_passes = 0 /\ m_iter_counter = 0)

\* C5 amended: after every successful init_minimization() the pass counter
\* is zero; the iteration counter is not reset, it keeps the value it had
\* before the call.
C5_ResetsPassCounterOnly ==
    /\ []((last.op = "init_minimization" /\ last.ok) => m_cur_passes = 0)
    /\ [][last'.op = "init_minimization" => m_iter_counter' = m_iter_counter]_vars

\* C5 witness: a re-initialization after steps and a pass has succeeded, and
\* the iteration counter still counts the earlier steps.
C5_Witness ==
    /\ last.op = "init_minimization"
    /\ last.ok
    /\ phase = "Initialized"
    /\ m_cur_passes = 0
    /\ m_iter_counter = MaxIter

\* C6 as stated: after a successful init_minimization() no subsequent step
\* fails with a configuration error.  (A step is taken only after a
\* successful init_minimization().)
C6_AsStated ==
    last.op = "step" => last.ok

\* C6 amended: after a successful init_minimization(), whatever setter calls
\* and steps follow, the cost function and the updater stay present and the
\* pass budget stays positive, so no step fails for them; a step fails only
\* for the one problem init_minimization() does not check, the missing
\* learning rate of a sparsity-inducing penalty.
C6_OnlyLearningRateFailsLater ==
    /\ phase # "Unconfigured" => Configured
    /\ (last.op = "step" /\ ~last.ok) => SparseWithoutRate

\* C6 witness: in a run that has completed a step, a later step has failed
\* on the learning rate, cleared after init_minimization().
C6_Witness ==
    /\ last.op = "step"
    /\ ~last.ok
    /\ phase = "Running"
    /\ m_iter_counter > 0

\* The variable vector after the updater's part of a step taken in the
\* current state.
AfterUpdater ==
    update_variable(m_gradient_updater, x, get_gradient(m_fun, x),
                    step_size_at(m_iter_counter), vel).x

C8_IterationCounter ==
    [][/\ (last'.op = "step" /\ last'.ok) => m_iter_counter' = m_iter_counter + 1
       /\ (last'.op = "step" /\ ~last'.ok) => m_iter_counter' = m_iter_counter
       /\ last'.op \notin {"step", "init_minimization"} =>
             m_iter_counter' = m_iter_counter
       /\ m_iter_counter' < m_iter_counter => last'.op = "init_minimization"]_vars

\* C8 witness: the counter has reached its bound by completed steps and the
\* last call was a setter.
C8_Witness ==
    /\ m_iter_counter = MaxIter
    /\ last.op = "set_learning_rate"

\* C9: a completed step uses the iteration counter's value i from before its
\* increment for the step size and for the proximal weight of a sparse
\* penalty (penalty weight x learning_rate(i)), computes the gradient at the
\* pre-step variables, applies the updater's delta and then the proximal
\* correction, and increments the counter last.
C9_StepOrder ==
    [][(last'.op = "step" /\ last'.ok) =>
          /\ m_iter_counter' = m_iter_counter + 1
          /\ last'.step_size = step_size_at(m_iter_counter)
          /\ m_penalty_type \in SparsePenalty =>
                /\ last'.prox_called
                /\ last'.prox_weight =
                      RMul(m_penalty_weight,
                           get_learning_rate(m_learning_rate, m_iter_counter))
          /\ x' = IF m_penalty_type \in ProximalPenalty
                  THEN update_variable_for_proximity(
                           m_penalty_type, AfterUpdater, last'.prox_weight)
                  ELSE AfterUpdater]_vars

\* C9 witness: a second step with the sparse penalty and the inverse-time
\* schedule has completed.
C9_Witness ==
    /\ last.op = "step"
    /\ last.ok
    /\ last.prox_called
    /\ m_penalty_type \in SparsePenalty
    /\ m_iter_counter >= 2

\* C10: for a proximal-capable penalty that is not sparsity-inducing the
\* proximal operation succeeds with or without a learning-rate schedule and
\* passes exactly the configured penalty weight to
\* update_variable_for_proximity.
C10_DenseProximalWeight ==
    (/\ last.op \in {"step", "do_proximal_operation"}
     /\ m_penalty_type \in ProximalPenalty \ SparsePenalty) =>
        /\ last.ok
        /\ last.prox_called
        /\ last.prox_weight = m_penalty_weight

\* C10 witness: the proximal operation of the dense penalty has run with a
\* schedule set whose current value is not 1.
C10_Witness ==
    /\ last.op = "do_proximal_operation"
    /\ last.ok
    /\ m_penalty_type \in ProximalPenalty \ SparsePenalty
    /\ m_learning_rate # NULL
    /\ get_learning_rate(m_learning_rate, m_iter_counter) # One

\* C11: once the minimizer is in PassLimitReached, every further attempt to
\* take a step is rejected and changes neither the variable vector nor the
\* iteration and pass counters.
C11_TerminalSticky ==
    [][(phase = "PassLimitReached" /\ last'.op = "step") =>
          /\ ~last'.ok
          /\ x' = x
          /\ m_iter_counter' = m_iter_counter
          /\ m_cur_passes' = m_cur_passes]_vars

\* C12 as stated: in every state after a successful init_minimization(),
\* 0 <= pass counter <= pass budget.
C12_AsStated ==
    phase # "Unconfigured" => (0 <= m_cur_passes /\ m_cur_passes <= m_num_passes)

\* C12 amended: the pass counter is never negative; set_number_passes does
\* not compare the new budget with the pass counter and never changes the
\* counter; a pass boundary increments the counter by one and enters
\* PassLimitReached exactly when the incremented counter has reached the
\* budget, and nothing else enters it; the counter comes to exceed the
\* budget only by a set_number_passes that lowers the budget, or by a pass
\* boundary taken when the counter already equals the budget.
C12_PassCounterAndBudget ==
    /\ [](m_cur_passes >= 0)
    /\ [][/\ last'.op = "set_number_passes" => m_cur_passes' = m_cur_passes
          /\ last'.op = "end_pass" =>
                /\ m_cur_passes' = m_cur_passes + 1
                /\ phase' = "PassLimitReached" <=> m_cur_passes' >= m_num_passes'
          /\ (phase' = "PassLimitReached" /\ phase # "PassLimitReached") =>
                last'.op = "end_pass"
          /\ (m_cur_passes <= m_num_passes /\ m_cur_passes' > m_num_passes') =>
                \/ last'.op = "set_number_passes"
                \/ (last'.op = "end_pass" /\ m_cur_passes = m_num_passes)]_vars

\* C12 witness: a successful set_number_passes has lowered the budget below
\* the pass counter of an initialized minimizer.
C12_Witness ==
    /\ last.op = "set_number_passes"
    /\ last.ok
    /\ phase # "Unconfigured"
    /\ m_cur_passes > m_num_passes

\* C13 as stated: once a pass budget has been configured, the pass counter
\* is strictly positive.
C13_AsStated ==
    m_num_passes > 0 => m_cur_passes > 0

\* C13 amended: once a pass budget has been configured it is the budget
\* that is strictly positive in every later state; the pass counter is only
\* non-negative, and it is zero after a successful init_minimization().
C13_BudgetStaysPositive ==
    /\ [][m_num_passes > 0 => m_num_passes' > 0]_vars
    /\ [](m_cur_passes >= 0)
    /\ []((m_num_passes > 0 /\ last.op = "init_minimization" /\ last.ok) =>
             m_cur_passes = 0)

\* C13 witness: the budget is reconfigured in a run that has not yet
\* completed a pass: the budget is positive and the pass counter is zero.
C13_Witness ==
    /\ last.op = "set_number_passes"
    /\ last.ok
    /\ phase = "Running"
    /\ m_num_passes > 0
    /\ m_cur_passes = 0

\* The accumulators are freshly allocated: not yet sized, or all zero.
FreshAccumulators(buf, n) == buf \in {<<>>, ZeroVector(n)}

RECURSIVE RPow(_, _)
RPow(a, k) == IF k = 0 THEN One ELSE RMul(a, RPow(a, k - 1))

PlainConstant ==
    /\ m_gradient_updater = "GradientDescendUpdater"
    /\ m_learning_rate = "ConstLearningRate"
    /\ m_penalty_type = NULL

\* C16: with the plain updater, a constant learning rate lr and no penalty,
\* each completed step replaces x by x - lr * gradient(x); for the quadratic
\* cost (gradient 2x) and lr = 1/10 each step gives x' = (4/5) * x, and
\* after k steps x = x0 * (4/5)^k for the starting point x0.
C16_PlainConstantStep ==
    /\ [][(PlainConstant /\ last'.op = "step") =>
            /\ last'.ok
            /\ m_iter_counter' = m_iter_counter + 1
            /\ x' = [i \in 1..Len(x) |->
                        RSub(x[i], RMul(last'.step_size, get_gradient(m_fun, x)[i]))]
            /\ m_fun = "QuadraticCost" =>
                   /\ last'.step_size = <<1, 10>>
                   /\ x' = [i \in 1..Len(x) |-> RMul(<<4, 5>>, x[i])]]_vars
    /\ []((PlainConstant /\ m_fun = "QuadraticCost") =>
             \E x0 \in UpdaterInitialVariables :
                 x = [i \in 1..Len(x0) |-> RMul(x0[i], RPow(<<4, 5>>, m_iter_counter))])

\* C16 witness: MaxRunSteps plain steps with the constant rate on the
\* quadratic cost, from x0 = <<10>>.
C16_Witness ==
    /\ PlainConstant
    /\ m_fun = "QuadraticCost"
    /\ last.op = "step"
    /\ last.ok
    /\ m_iter_counter = MaxRunSteps
    /\ x = <<RMul(<<10, 1>>, RPow(<<4, 5>>, MaxRunSteps))>>

DecayRates == {<<1, 2>>, One, <<3, 1>>}
InitialRates == {<<1, 4>>, One}

\* C19: for an inverse-time schedule with decay rate r > 0 every returned
\* learning rate is positive and get_learning_rate(k+1) <= get_learning_rate(k)
\* at every iteration k >= 0; the step sizes of a run with the schedule are
\* these values, so they are positive and never grow.
C19_InverseTimeDecay ==
    /\ [](\A r \in DecayRates : \A l0 \in InitialRates :
            LET k == m_iter_counter
            IN  /\ RLess(Zero, InverseTime(l0, r, k))
                /\ RLess(Zero, InverseTime(l0, r, k + 1))
                /\ ~RLess(InverseTime(l0, r, k), InverseTime(l0, r, k + 1)))
    /\ []((m_learning_rate = "InverseScalingLearningRate" /\ last.op = "step") =>
             RLess(Zero, last.step_size))
    /\ [][(m_learning_rate = "InverseScalingLearningRate"
            /\ last.op = "step" /\ last'.op = "step")
           => ~RLess(last.step_size, last'.step_size)]_vars

\* C19 witness: a run with the inverse-time schedule has taken MaxRunSteps
\* steps and its last step size is smaller than its first.
C19_Witness ==
    /\ m_learning_rate = "InverseScalingLearningRate"
    /\ last.op = "step"
    /\ m_iter_counter = MaxRunSteps
    /\ RLess(last.step_size, get_learning_rate(m_learning_rate, 0))

\* The effective weight of the proximal correction is zero: the penalty
\* weight is zero or, for a sparse penalty, the learning rate is.
ZeroEffectiveWeight ==
    \/ m_penalty_weight = Zero
    \/ /\ m_penalty_type \in SparsePenalty
       /\ m_learning_rate # NULL
       /\ get_learning_rate(m_learning_rate, m_iter_counter) = Zero

\* C15: for every penalty variant the proximal correction with weight 0
\* leaves every element of the variable vector unchanged; hence
\* do_proximal_operation with penalty weight 0 (or, for a sparse penalty,
\* learning rate 0) never changes the variable vector: a direct call leaves
\* x as it was and a completed step leaves what the updater produced.
C15_ProximalIdempotence ==
    /\ [](\A ptype \in ProximalPenalty :
            update_variable_for_proximity(ptype, x, Zero) = x)
    /\ [][(ZeroEffectiveWeight /\ last'.op = "do_proximal_operation") => x' = x]_vars
    /\ [][(ZeroEffectiveWeight /\ last'.op = "step" /\ last'.ok) =>
             x' = AfterUpdater]_vars

\* C15 witness: do_proximal_operation has invoked the sparse penalty's
\* correction with penalty weight 1/4 scaled by learning rate 0, after a
\* step, on a vector with a non-zero element.
C15_Witness ==
    /\ last.op = "do_proximal_operation"
    /\ last.ok
    /\ last.prox_called
    /\ last.prox_weight = Zero
    /\ m_penalty_type \in SparsePenalty
    /\ m_penalty_weight # Zero
    /\ m_learning_rate = ZeroLearningRate
    /\ m_iter_counter > 0
    /\ \E i \in 1..Len(x) : x[i] # Zero

\* C17: with a sparse (L1) proximal penalty of weight w and a learning rate
\* lr, each step first applies the gradient update and then soft-thresholds
\* every variable toward zero by lr * w: an updated value of magnitude at
\* most lr * w becomes exactly 0, any other keeps its sign and loses lr * w
\* of its magnitude.
C17_SoftThreshold ==
    [][(m_penalty_type \in SparsePenalty /\ m_learning_rate # NULL
        /\ last'.op = "step") =>
        LET u == AfterUpdater
            t == RMul(get_learning_rate(m_learning_rate, m_iter_counter),
                      m_penalty_weight)
        IN  /\ last'.ok
            /\ last'.prox_called
            /\ last'.prox_weight = t
            /\ Len(x') = Len(u)
            /\ \A i \in 1..Len(u) :
                   IF ~RLess(t, RAbs(u[i]))
                   THEN x'[i] = Zero
                   ELSE /\ (x'[i][1] > 0) = (u[i][1] > 0)
                        /\ x'[i][1] # 0
                        /\ RAbs(x'[i]) = RSub(RAbs(u[i]), t)]_vars

\* C17 witness: the first step from <<2, -1/100>> with the constant rate
\* 1/10 and sparse penalty weight 1/4: the gradient update gives
\* <<8/5, -1/125>>, the threshold is 1/40, the result <<63/40, 0>>.
C17_Witness ==
    /\ last.op = "step"
    /\ last.ok
    /\ m_penalty_type \in SparsePenalty
    /\ m_learning_rate = "ConstLearningRate"
    /\ m_penalty_weight = <<1, 4>>
    /\ last.prox_weight = <<1, 40>>
    /\ m_iter_counter = 1
    /\ x = <<(<<63, 40>>), Zero>>

\* The two vectors of the last call of compute.
ComputedA == lhs[computed.idx_a + 1]
ComputedB == rhs[computed.idx_b + 1]

\* C20: compute returns exactly 0 for two equal non-zero vectors; it
\* returns 0 (a number, never an undefined quotient) whenever the sum of
\* |a_i + b_i| is 0, b = -a with a non-zero included; in every other case
\* it returns (sum of |a_i - b_i|) / (sum of |a_i + b_i|).
C20_BrayCurtisValue ==
    computed.ok =>
        LET a == ComputedA
            b == ComputedB
            n == Len(a)
            NonZero(v) == \E i \in 1..Len(v) : v[i] # Zero
            sum_diff == s1(a, b, n)
            sum_sum == s2(a, b, n)
        IN  /\ Len(b) = n
            /\ computed.value[2] > 0
            /\ (a = b /\ NonZero(a)) => computed.value = Zero
            /\ sum_sum = Zero => computed.value = Zero
            /\ (NonZero(a) /\ b = [i \in 1..n |-> RNeg(a[i])]) =>
                   (sum_sum = Zero /\ computed.value = Zero)
            /\ sum_sum # Zero =>
                   /\ computed.value = RDiv(sum_diff, sum_sum)
                   /\ RMul(computed.value, sum_sum) = sum_diff

\* C20 witness: compute was called on a non-zero a and b = -a, where the
\* sum of differences is not 0 and the sum of sums is.
C20_Witness ==
    /\ computed.ok
    /\ computed.value = Zero
    /\ Len(ComputedA) = 2
    /\ \A i \in 1..2 : ComputedA[i] # Zero /\ ComputedB[i] = RNeg(ComputedA[i])
    /\ s1(ComputedA, ComputedB, 2) # Zero

\* C21: when no penalty is configured, or the configured penalty is not
\* proximal-capable, do_proximal_operation never fails, does not invoke
\* update_variable_for_proximity and leaves the vector it is given
\* unchanged, with or without a learning rate: a direct call leaves x as it
\* was, and a step leaves what the updater produced.
C21_NoProximalPenalty ==
    [][(m_penalty_type \notin ProximalPenalty) =>
          /\ last'.op = "do_proximal_operation" =>
                (last'.ok /\ ~last'.prox_called /\ x' = x)
          /\ last'.op = "step" =>
                (last'.ok /\ ~last'.prox_called /\ x' = AfterUpdater)]_vars

\* C21 witness: do_proximal_operation was called directly with a penalty
\* that is not proximal-capable and without a learning rate, on a non-zero
\* vector.
C21_Witness ==
    /\ last.op = "do_proximal_operation"
    /\ last.ok
    /\ ~last.prox_called
    /\ m_penalty_type = "SmoothPenalty"
    /\ m_learning_rate = NULL
    /\ x # ZeroVector(Len(x))

\* C22: do_proximal_operation fails only for a sparsity-inducing penalty
\* without a learning rate; when it fails, update_variable_for_proximity is
\* not invoked and the vector passed to it has the same value after the
\* failure as at its entry (x for a direct call, the updater's result for a
\* call made by a step).
C22_FailureLeavesVector ==
    [][/\ (last'.op = "do_proximal_operation" /\ ~last'.ok) =>
             (SparseWithoutRate /\ ~last'.prox_called /\ x' = x)
       /\ (last'.op = "step" /\ ~last'.ok) =>
             (SparseWithoutRate /\ ~last'.prox_called /\ x' = AfterUpdater)
       /\ (SparseWithoutRate /\ last'.op \in {"do_proximal_operation", "step"}) =>
             ~last'.ok]_vars

\* C22 witness: a direct do_proximal_operation has failed on a non-zero
\* vector with the sparse penalty and a non-zero penalty weight.
C22_Witness ==
    /\ last.op = "do_proximal_operation"
    /\ ~last.ok
    /\ ~last.prox_called
    /\ SparseWithoutRate
    /\ m_penalty_weight # Zero
    /\ \E i \in 1..Len(x) : x[i] # Zero

\* C23: once init_minimization() has succeeded, no sequence of setter calls,
\* steps, pass boundaries, proximal operations and further
\* init_minimization() calls, successful or failing, reaches a state in
\* which the stored updater is null or the stored pass budget is not
\* positive.
C23_StaysConfigured ==
    /\ []((last.op = "init_minimization" /\ last.ok) =>
             (m_gradient_updater # NULL /\ m_num_passes > 0))
    /\ [](phase # "Unconfigured" =>
             (m_gradient_updater # NULL /\ m_num_passes > 0))
    /\ [][phase # "Unconfigured" => phase' # "Unconfigured"]_vars

\* C23 witness: in a run that has taken a step, set_gradient_updater(null)
\* was just rejected.
C23_Witness ==
    /\ phase = "Running"
    /\ m_iter_counter > 0
    /\ last.op = "set_gradient_updater"
    /\ last.arg = NULL
    /\ ~last.ok

\* C24: set_learning_rate never fails and stores its argument as given, a
\* null schedule included; it can clear a schedule at any time, also after
\* a successful init_minimization(), and whenever the schedule is absent
\* the proximal operation of a sparsity-inducing penalty fails.
C24_LearningRateCleared ==
    /\ [](last.op = "set_learning_rate" =>
             (last.ok /\ m_learning_rate = last.arg))
    /\ [][(m_learning_rate = NULL /\ m_penalty_type \in SparsePenalty
            /\ last'.op \in {"do_proximal_operation", "step"}) => ~last'.ok]_vars

\* C24 witness: with the sparse penalty, after a completed step (which
\* needed a schedule), the schedule was cleared and a direct proximal
\* operation has failed.
C24_Witness ==
    /\ last.op = "do_proximal_operation"
    /\ ~last.ok
    /\ m_penalty_type \in SparsePenalty
    /\ m_learning_rate = NULL
    /\ phase = "Running"
    /\ m_iter_counter > 0

\* C25: init_minimization() fails exactly when the cost function is
\* missing, the updater is missing or the pass budget is not positive, and
\* a failing call changes no field of the minimizer: pass counter,
\* iteration counter, pass budget, updater and learning rate (and the cost
\* function, the penalty, the variables and the life-cycle state) keep
\* their values from before the call.
C25_FailedInitChangesNothing ==
    [][(last'.op = "init_minimization" /\ ~last'.ok) =>
          /\ ~Configured
          /\ UNCHANGED <<m_cur_passes, m_iter_counter, m_num_passes,
                         m_gradient_updater, m_learning_rate>>
          /\ UNCHANGED <<m_fun, m_penalty_type, m_penalty_weight, x, vel, phase>>]_vars

\* C25 witness: init_minimization() has failed for the missing cost
\* function alone, on a minimizer whose updater, learning rate and budget
\* are set.
C25_Witness ==
    /\ last.op = "init_minimization"
    /\ ~last.ok
    /\ m_fun = NULL
    /\ m_gradient_updater # NULL
    /\ m_learning_rate # NULL
    /\ m_num_passes = MaxPasses

\* C26: a successful init_minimization() sets the pass counter to 0 and
\* changes no other field: updater, learning rate, pass budget, variable
\* vector (and iteration counter, cost function, penalty, accumulators) are
\* as before; a second call right after a successful one succeeds and
\* leaves the state exactly as the first left it.
C26_InitFrameAndIdempotence ==
    /\ [][(last'.op = "init_minimization" /\ last'.ok) =>
             /\ m_cur_passes' = 0
             /\ UNCHANGED <<m_gradient_updater, m_learning_rate, m_num_passes, x>>
             /\ UNCHANGED <<m_iter_counter, m_fun, m_penalty_type,
                            m_penalty_weight, vel>>]_vars
    /\ [][(last.op = "init_minimization" /\ last.ok
            /\ last'.op = "init_minimization") =>
             (last'.ok /\ UNCHANGED vars)]_vars

\* C26 witness: a re-initialization has succeeded after one completed step
\* and a pass, with a learning rate set: the pass counter is back at 0 and
\* the iteration counter still 1.
C26_Witness ==
    /\ last.op = "init_minimization"
    /\ last.ok
    /\ m_cur_passes = 0
    /\ m_iter_counter = 1
    /\ m_learning_rate # NULL
    /\ x \notin InitialVariables

\* C27: set_gradient_updater, set_number_passes, set_learning_rate and
\* do_proximal_operation leave the iteration counter and the pass counter
\* as they are, whether the call succeeds or fails; each setter changes at
\* most the one field it names.
C27_SetterFrames ==
    [][/\ last'.op \in {"set_gradient_updater", "set_number_passes",
                        "set_learning_rate", "do_proximal_operation"} =>
             UNCHANGED <<m_iter_counter, m_cur_passes>>
       /\ last'.op = "set_gradient_updater" =>
             UNCHANGED <<m_learning_rate, m_num_passes, m_fun, m_penalty_type,
                         m_penalty_weight, x, vel>>
       /\ last'.op = "set_number_passes" =>
             UNCHANGED <<m_gradient_updater, m_learning_rate, m_fun,
                         m_penalty_type, m_penalty_weight, x, vel>>
       /\ last'.op = "set_learning_rate" =>
             UNCHANGED <<m_gradient_updater, m_num_passes, m_fun,
                         m_penalty_type, m_penalty_weight, x, vel>>]_vars

\* C27 witness: set_number_passes has succeeded in a run with a non-zero
\* iteration counter and a non-zero pass counter that differs from the new
\* budget.
C27_Witness ==
    /\ last.op = "set_number_passes"
    /\ last.ok
    /\ m_iter_counter > 0
    /\ m_cur_passes > 0
    /\ m_cur_passes # m_num_passes

\* C28: a freshly constructed minimizer is Unconfigured, with updater and
\* learning rate absent and pass budget, pass counter and iteration counter
\* all 0; the updater and the budget leave these values only by a
\* successful set_gradient_updater and a successful set_number_passes, and
\* init_minimization() called before both have succeeded fails, leaving the
\* minimizer Unconfigured.
C28_FreshMinimizer ==
    /\ [](last.op = "init" =>
             /\ phase = "Unconfigured"
             /\ m_gradient_updater = NULL
             /\ m_learning_rate = NULL
             /\ m_num_passes = 0
             /\ m_cur_passes = 0
             /\ m_iter_counter = 0)
    /\ []((m_gradient_updater = NULL \/ m_num_passes = 0) =>
             /\ phase = "Unconfigured"
             /\ last.op = "init_minimization" => ~last.ok)
    /\ [][/\ (m_gradient_updater = NULL /\ m_gradient_updater' # NULL) =>
                (last'.op = "set_gradient_updater" /\ last'.ok)
          /\ (m_num_passes = 0 /\ m_num_passes' # 0) =>
                (last'.op = "set_number_passes" /\ last'.ok)]_vars

\* C28 witness: init_minimization() has failed on a minimizer with a cost
\* function and an updater whose pass budget was never set.
C28_Witness ==
    /\ last.op = "init_minimization"
    /\ ~last.ok
    /\ phase = "Unconfigured"
    /\ m_fun # NULL
    /\ m_gradient_updater # NULL
    /\ m_num_passes = 0

\* C29: compute is symmetric in its two vectors: a call on (b, a) made
\* right after a call on (a, b) that returned a value returns the same
\* value, also when the division-by-zero trap applies; a call returns a
\* value exactly when its two vectors have the same length, and on vectors
\* of unequal length it ends at the length assertion without a value.
C29_ComputeSymmetric ==
    /\ computed.ok <=>
          (computed.avec # <<>> /\ Len(computed.avec) = Len(computed.bvec))
    /\ ~computed.ok => computed.value = NULL
    /\ (/\ computed.before.ok
        /\ computed.avec = computed.before.bvec
        /\ computed.bvec = computed.before.avec) =>
          /\ computed.ok
          /\ computed.value = computed.before.value
          /\ computed.value =
                IF s2(computed.bvec, computed.avec, Len(computed.avec)) = Zero
                THEN Zero
                ELSE RDiv(s1(computed.bvec, computed.avec, Len(computed.avec)),
                          s2(computed.bvec, computed.avec, Len(computed.avec)))

\* C29 witness: compute has returned a value other than 0 on (b, a) right
\* after a call on (a, b), with a and b different vectors of two elements.
C29_Witness ==
    /\ computed.ok
    /\ computed.before.ok
    /\ computed.avec = computed.before.bvec
    /\ computed.bvec = computed.before.avec
    /\ computed.avec # computed.bvec
    /\ Len(computed.avec) = 2
    /\ computed.value # Zero
    /\ computed.value = computed.before.value

=============================================================================
